---- MODULE Spec2Model ----
(***************************************************************************)
(* Model of dwm_monitor (src/src/main.rs): a Windows service that polls    *)
(* the process table for dwm.exe, samples its private bytes, and runs      *)
(* `taskkill /F /IM dwm.exe` when the sample exceeds a threshold loaded    *)
(* from config.cfg.                                                        *)
(*                                                                         *)
(* One thread of control (service_main -> monitor_dwm) is modelled by pc;  *)
(* the service control handler and the operating system (process table)    *)
(* are separate actions that interleave with it.                           *)
(***************************************************************************)
EXTENDS Integers, Sequences, FiniteSets

(***************************************************************************)
(* Bounds of the model                                                     *)
(***************************************************************************)
\* Largest number of processes alive at once; process ids are 1..MaxProcs,
\* so an id is reused as soon as its process has exited.
MaxProcs == 2
\* Private bytes reported by GetProcessMemoryInfo range over 0..MaxMem.
MaxMem == 2
\* Thresholds written to config.cfg range over 0..MaxThreshold, besides the
\* default and a few large values.
MaxThreshold == 12

(***************************************************************************)
(* Program constants                                                       *)
(***************************************************************************)
DEFAULT_MEMORY_THRESHOLD == 1000 * 1024 * 1024
\* process_ids: [DWORD; 1024]
PROCESS_IDS_LEN == 1024

(***************************************************************************)
(* Strings are sequences of one-character strings.                         *)
(***************************************************************************)
UpperCase == <<"A","B","C","D","E","F","G","H","I","J","K","L","M",
               "N","O","P","Q","R","S","T","U","V","W","X","Y","Z">>
LowerCase == <<"a","b","c","d","e","f","g","h","i","j","k","l","m",
               "n","o","p","q","r","s","t","u","v","w","x","y","z">>

\* u8::to_ascii_lowercase: only 'A'..'Z' change.
ToAsciiLower(c) ==
    IF \E i \in 1..Len(UpperCase) : UpperCase[i] = c
    THEN LowerCase[CHOOSE i \in 1..Len(UpperCase) : UpperCase[i] = c]
    ELSE c

\* str::eq_ignore_ascii_case
EqIgnoreAsciiCase(a, b) ==
    /\ Len(a) = Len(b)
    /\ \A i \in 1..Len(a) : ToAsciiLower(a[i]) = ToAsciiLower(b[i])

\* The image name the watchdog looks for and hands to taskkill: "dwm.exe".
TARGET_IMAGE == <<"d","w","m",".","e","x","e">>

\* Image names the modelled operating system gives to processes.
ImageNames == { TARGET_IMAGE,
                <<"D","W","M",".","E","X","E">>,
                <<"c","m","d",".","e","x","e">> }

\* The comparison of line 124, tabulated over the image names in use.
MatchesTarget == [n \in ImageNames |-> EqIgnoreAsciiCase(n, TARGET_IMAGE)]

(***************************************************************************)
(* Values                                                                  *)
(***************************************************************************)
Pids == 1..MaxProcs
\* Option<DWORD>::None
NoPid == 0
MemValues == 0..MaxMem
\* memory_threshold before get_memory_threshold has returned
NotLoaded == -1

\* config.cfg: whether the file exists, and its key/value lines.
NoFile == [exists |-> FALSE, lines |-> << >>]
THRESHOLD_KEY == "memory_threshold"
Digits == <<"0","1","2","3","4","5","6","7","8","9">>

IsDigit(c) == \E i \in 1..10 : Digits[i] = c
DigitValue(c) == (CHOOSE i \in 1..10 : Digits[i] = c) - 1

\* format!("{}", n) for an unsigned integer
RECURSIVE DecimalDigits(_)
DecimalDigits(n) ==
    IF n < 10 THEN << Digits[n + 1] >>
    ELSE Append(DecimalDigits(n \div 10), Digits[(n % 10) + 1])

\* str::parse::<u64>: -1 stands for Err (empty text or a non-digit character).
ParseErr == -1
RECURSIVE ParseDigits(_, _)
ParseDigits(s, acc) ==
    IF s = << >> THEN acc
    ELSE IF ~IsDigit(Head(s)) THEN ParseErr
    ELSE ParseDigits(Tail(s), 10 * acc + DigitValue(Head(s)))
\* An unsigned parse accepts one leading '+' and no '-'.
ParseU64(s) ==
    IF s = << >> THEN ParseErr
    ELSE IF Head(s) = "+"
    THEN (IF Tail(s) = << >> THEN ParseErr ELSE ParseDigits(Tail(s), 0))
    ELSE ParseDigits(s, 0)

\* Config::get::<u64>(key): the first line with that key, parsed.
ConfigGet(file, key) ==
    LET ls == file.lines IN
    IF \E i \in 1..Len(ls) : ls[i].key = key
    THEN ParseU64(ls[CHOOSE i \in 1..Len(ls) :
                       /\ ls[i].key = key
                       /\ \A j \in 1..(i - 1) : ls[j].key # key].value)
    ELSE ParseErr

ConfigLine(v) ==
    [exists |-> TRUE, lines |-> << [key |-> THRESHOLD_KEY, value |-> v] >>]
EmptyConfig == [exists |-> TRUE, lines |-> << >>]

\* Contents of config.cfg when the service starts.
InitialConfigs ==
    { NoFile, EmptyConfig, ConfigLine(<<"0">>), ConfigLine(<<"1">>), ConfigLine(<<"x">>),
      ConfigLine(<<"1","x">>), ConfigLine(<<"-","1">>), ConfigLine(<< >>) }

(***************************************************************************)
(* State                                                                   *)
(***************************************************************************)
VARIABLES
    pc,                 \* position of the service thread
    table,              \* OS process table, in EnumProcesses order: [pid, name]
    configFile,         \* config.cfg
    loggingReady,       \* configure_logging returned Ok
    handlerRegistered,  \* service_control_handler::register succeeded
    statusRunning,      \* set_service_status(Running) returned Ok
    memory_threshold,   \* monitor_dwm: let memory_threshold
    pid,                \* monitor_dwm: Some(pid) of this cycle's scan, or NoPid
    private_bytes,      \* monitor_dwm: let private_bytes
    lastCheck,          \* what is_dwm_running returned in the thread's latest step
                        \* (NoCall when that step did not call it)
    found,              \* this cycle's scan found the target
    queries,            \* memory queries made in this cycle
    queryOutcome,       \* how this cycle's memory query ended ("none" before it)
    sampled,            \* private bytes this cycle compares (NoSample before the query)
    kills,              \* termination commands issued in this cycle
    killResult,         \* this cycle's taskkill: "none", "spawn_err", "exit_fail", "exit_ok"
    killedOther,        \* this cycle's taskkill ended a process other than the sampled one
    sleeps,             \* interval sleeps since the latest scan
    scanned,            \* the loop has scanned at least once
    sampledLive,        \* the process found by this cycle's scan is still alive
    checkFaulted        \* in the thread's latest step is_dwm_running was called and
                        \* EnumProcesses failed or a target process could not be queried

vars == << pc, table, configFile, loggingReady, handlerRegistered, statusRunning,
           memory_threshold, pid,
           private_bytes, lastCheck, found, queries, queryOutcome, sampled,
           kills, killResult, killedOther, sleeps, scanned, sampledLive,
           checkFaulted >>

\* What service_main's startup has achieved.
startupVars == << loggingReady, handlerRegistered, statusRunning >>

\* What one polling cycle has done so far.
cycleVars == << found, queries, queryOutcome, sampled, kills, killResult,
               killedOther, sleeps, scanned >>

StartupPcs == { "configure_logging", "register", "set_status", "get_memory_threshold" }
ScanPcs == { "scan", "mem_query", "compare", "interval_sleep" }
RestartPcs == { "taskkill", "grace_sleep", "recheck", "retry_sleep", "retry_check" }
WaitPcs == { "wait_check", "wait_sleep" }
RecoveryPcs == RestartPcs \cup WaitPcs
LoopPcs == ScanPcs \cup RecoveryPcs
DeadPcs == { "returned", "panicked", "exited" }

\* lastCheck after a step that made no presence check
NoCall == 0 - 1
\* sampled before this cycle's memory query
NoSample == 0 - 1

TablePids(tbl) == { tbl[i].pid : i \in 1..Len(tbl) }
TargetPids(tbl) == { tbl[i].pid : i \in { j \in 1..Len(tbl) : MatchesTarget[tbl[j].name] } }
TargetPresent == TargetPids(table) # {}

RECURSIVE RemovePids(_, _)
RemovePids(tbl, gone) ==
    IF tbl = << >> THEN << >>
    ELSE IF Head(tbl).pid \in gone THEN RemovePids(Tail(tbl), gone)
    ELSE << Head(tbl) >> \o RemovePids(Tail(tbl), gone)

\* The process at the entry of service_main, whatever config.cfg holds.
InitProcess ==
    /\ pc = "configure_logging"
    /\ table \in { << >>, << [pid |-> 1, name |-> TARGET_IMAGE] >> }
    /\ loggingReady = FALSE
    /\ handlerRegistered = FALSE
    /\ statusRunning = FALSE
    /\ memory_threshold = NotLoaded
    /\ pid = NoPid
    /\ private_bytes = 0
    /\ lastCheck = NoCall
    /\ found = FALSE
    /\ queries = 0
    /\ queryOutcome = "none"
    /\ sampled = NoSample
    /\ kills = 0
    /\ killResult = "none"
    /\ killedOther = FALSE
    /\ sleeps = 0
    /\ scanned = FALSE
    /\ sampledLive = FALSE
    /\ checkFaulted = FALSE

InitCommon == InitProcess /\ configFile \in InitialConfigs

Init == InitCommon

(***************************************************************************)
(* is_dwm_running                                                          *)
(***************************************************************************)
\* What happens to one enumerated process inside is_dwm_running:
\*   "no_open"  OpenProcess returns null                       (line 114)
\*   "no_name"  EnumProcessModules or GetModuleBaseNameW fails (lines 120, 122)
\*   "ok"       the base name is read and compared
Access == { "ok", "no_open", "no_name" }

Min(a, b) == IF a < b THEN a ELSE b

\* Mutant: the loop bound is one short, so the last enumerated id is not visited.
Enumerated_OffByOne(tbl) == SubSeq(tbl, 1, Min(Len(tbl), PROCESS_IDS_LEN) - 1)

\* EnumProcesses fills at most PROCESS_IDS_LEN entries.
Enumerated(tbl) == SubSeq(tbl, 1, Min(Len(tbl), PROCESS_IDS_LEN))

\* Mutant: `return None` for `continue` at line 115; a process that cannot be
\* opened ends the search.
RECURSIVE FirstMatch_AbortOnUnopenable(_, _)
FirstMatch_AbortOnUnopenable(procs, acc) ==
    IF procs = << >> THEN NoPid
    ELSE IF acc[Head(procs).pid] = "no_open" THEN NoPid
    ELSE IF acc[Head(procs).pid] = "no_name"
    THEN FirstMatch_AbortOnUnopenable(Tail(procs), acc)
    ELSE IF MatchesTarget[Head(procs).name] THEN Head(procs).pid
    ELSE FirstMatch_AbortOnUnopenable(Tail(procs), acc)

\* The for loop of is_dwm_running: the first enumerated process that opens,
\* yields its name, and whose name equals "dwm.exe" ignoring ASCII case.
RECURSIVE FirstMatch(_, _)
FirstMatch(procs, acc) ==
    IF procs = << >> THEN NoPid
    ELSE IF acc[Head(procs).pid] = "no_open" THEN FirstMatch(Tail(procs), acc)
    ELSE IF acc[Head(procs).pid] = "no_name" THEN FirstMatch(Tail(procs), acc)
    ELSE IF MatchesTarget[Head(procs).name] THEN Head(procs).pid
    ELSE FirstMatch(Tail(procs), acc)

IsDwmRunning(tbl, acc, enumOk) ==
    IF ~enumOk THEN NoPid ELSE FirstMatch(Enumerated(tbl), acc)

\* One call of is_dwm_running on the current process table, returning r.
\* When EnumProcesses fails no process is opened.
IsDwmRunningCall(r) ==
    \E enumOk \in BOOLEAN, acc \in [TablePids(table) -> Access] :
        /\ ~enumOk => \A p \in TablePids(table) : acc[p] = "ok"
        /\ r = IsDwmRunning(table, acc, enumOk)
        /\ lastCheck' = r
        /\ checkFaulted' = (~enumOk \/ \E p \in TargetPids(table) : acc[p] # "ok")

(***************************************************************************)
(* get_process_memory_info                                                 *)
(***************************************************************************)
None == [some |-> FALSE]
Some(v) == [some |-> TRUE, value |-> v]
UnwrapOr(opt, default) == IF opt.some THEN opt.value ELSE default

\* outcome: "no_open" (OpenProcess null), "no_counters" (GetProcessMemoryInfo
\* returns 0), "ok" (PagefileUsage = m). A pid that no process holds cannot be opened.
QueryOutcomes == { "ok", "no_open", "no_counters" }
\* Mutant: the counters are not zeroed, so a failed GetProcessMemoryInfo
\* leaves whatever they held.
GetProcessMemoryInfo_Unzeroed(tbl, p, outcome, m) ==
    IF p \notin TablePids(tbl) \/ outcome = "no_open" THEN None
    ELSE Some([private_bytes |-> m, working_set |-> m])

GetProcessMemoryInfo(tbl, p, outcome, m) ==
    IF p \notin TablePids(tbl) \/ outcome = "no_open" THEN None
    ELSE IF outcome = "ok" THEN Some([private_bytes |-> m, working_set |-> m])
    ELSE Some([private_bytes |-> 0, working_set |-> 0])

(***************************************************************************)
(* get_memory_threshold                                                    *)
(***************************************************************************)
\* Mutant: the default is written in MB, the unit of the log lines.
GetMemoryThresholdResult_DefaultInMB(file, fsOk) ==
    IF ~fsOk THEN [panic |-> TRUE, file |-> file, value |-> NotLoaded]
    ELSE IF ~file.exists
    THEN [panic |-> FALSE,
          file  |-> ConfigLine(DecimalDigits(DEFAULT_MEMORY_THRESHOLD \div (1024 * 1024))),
          value |-> DEFAULT_MEMORY_THRESHOLD]
    ELSE IF ConfigGet(file, THRESHOLD_KEY) = ParseErr
    THEN [panic |-> TRUE, file |-> file, value |-> NotLoaded]
    ELSE [panic |-> FALSE, file |-> file, value |-> ConfigGet(file, THRESHOLD_KEY)]

\* Mutant: the value returned is the one logged at line 85, in MB.
GetMemoryThresholdResult_ValueInMB(file, fsOk) ==
    IF ~fsOk THEN [panic |-> TRUE, file |-> file, value |-> NotLoaded]
    ELSE IF ~file.exists
    THEN [panic |-> FALSE,
          file  |-> ConfigLine(DecimalDigits(DEFAULT_MEMORY_THRESHOLD)),
          value |-> DEFAULT_MEMORY_THRESHOLD]
    ELSE IF ConfigGet(file, THRESHOLD_KEY) = ParseErr
    THEN [panic |-> TRUE, file |-> file, value |-> NotLoaded]
    ELSE [panic |-> FALSE, file |-> file,
          value |-> ConfigGet(file, THRESHOLD_KEY) \div (1024 * 1024)]

\* Mutant: a value that does not parse is replaced by the default.
GetMemoryThresholdResult_DefaultOnErr(file, fsOk) ==
    IF ~fsOk THEN [panic |-> TRUE, file |-> file, value |-> NotLoaded]
    ELSE IF ~file.exists
    THEN [panic |-> FALSE,
          file  |-> ConfigLine(DecimalDigits(DEFAULT_MEMORY_THRESHOLD)),
          value |-> DEFAULT_MEMORY_THRESHOLD]
    ELSE IF ConfigGet(file, THRESHOLD_KEY) = ParseErr
    THEN [panic |-> FALSE, file |-> file, value |-> DEFAULT_MEMORY_THRESHOLD]
    ELSE [panic |-> FALSE, file |-> file, value |-> ConfigGet(file, THRESHOLD_KEY)]

\* The value returned and the file left behind; panic when an unwrap fails.
GetMemoryThresholdResult(file, fsOk) ==
    IF ~fsOk THEN [panic |-> TRUE, file |-> file, value |-> NotLoaded]
    ELSE IF ~file.exists
    THEN [panic |-> FALSE,
          file  |-> ConfigLine(DecimalDigits(DEFAULT_MEMORY_THRESHOLD)),
          value |-> DEFAULT_MEMORY_THRESHOLD]
    ELSE IF ConfigGet(file, THRESHOLD_KEY) = ParseErr
    THEN [panic |-> TRUE, file |-> file, value |-> NotLoaded]
    ELSE [panic |-> FALSE, file |-> file, value |-> ConfigGet(file, THRESHOLD_KEY)]

(***************************************************************************)
(* service_main: startup                                                   *)
(***************************************************************************)
\* lines 219-222
ConfigureLogging ==
    /\ pc = "configure_logging"
    /\ \E ok \in BOOLEAN :
        /\ loggingReady' = ok
        /\ pc' = IF ok THEN "register" ELSE "returned"
    /\ UNCHANGED << table, configFile, handlerRegistered, statusRunning,
                    memory_threshold, pid,
                    private_bytes, lastCheck, cycleVars, sampledLive, checkFaulted >>

\* lines 236-242
RegisterHandler ==
    /\ pc = "register"
    /\ \E ok \in BOOLEAN :
        /\ handlerRegistered' = ok
        /\ pc' = IF ok THEN "set_status" ELSE "returned"
    /\ UNCHANGED << table, configFile, loggingReady, statusRunning,
                    memory_threshold, pid,
                    private_bytes, lastCheck, cycleVars, sampledLive, checkFaulted >>

\* Mutant: the Err of set_service_status is logged and startup goes on.
SetServiceStatus_IgnoreErr ==
    /\ pc = "set_status"
    /\ \E ok \in BOOLEAN :
        /\ statusRunning' = ok
        /\ pc' = "get_memory_threshold"
    /\ UNCHANGED << table, configFile, loggingReady, handlerRegistered,
                    memory_threshold, pid,
                    private_bytes, lastCheck, cycleVars, sampledLive, checkFaulted >>

\* lines 254-257
SetServiceStatus ==
    /\ pc = "set_status"
    /\ \E ok \in BOOLEAN :
        /\ statusRunning' = ok
        /\ pc' = IF ok THEN "get_memory_threshold" ELSE "returned"
    /\ UNCHANGED << table, configFile, loggingReady, handlerRegistered,
                    memory_threshold, pid,
                    private_bytes, lastCheck, cycleVars, sampledLive, checkFaulted >>

\* monitor_dwm, line 176
GetMemoryThreshold ==
    /\ pc = "get_memory_threshold"
    /\ \E fsOk \in BOOLEAN :
        LET res == GetMemoryThresholdResult(configFile, fsOk) IN
        /\ configFile' = res.file
        /\ memory_threshold' = res.value
        /\ pc' = IF res.panic THEN "panicked" ELSE "scan"
    /\ UNCHANGED << table, startupVars, pid,
                    private_bytes, lastCheck, cycleVars, sampledLive, checkFaulted >>

(***************************************************************************)
(* monitor_dwm: the polling loop                                           *)
(***************************************************************************)
\* Mutant: the ceiling taken as exclusive (>= for >).
ExceedsThreshold_Inclusive(bytes, threshold) == bytes >= threshold

\* line 185: if private_bytes > memory_threshold
ExceedsThreshold(bytes, threshold) == bytes > threshold

\* Mutant: the else branch calls restart_dwm() for wait_for_dwm_restart().
Scan_RestartWhenAbsent ==
    /\ pc = "scan"
    /\ \E r \in Pids \cup {NoPid} :
        /\ IsDwmRunningCall(r)
        /\ pid' = r
        /\ found' = (r # NoPid)
        /\ sampledLive' = (r # NoPid)
        /\ pc' = IF r # NoPid THEN "mem_query" ELSE "taskkill"
    /\ scanned' = TRUE
    /\ queries' = 0
    /\ queryOutcome' = "none"
    /\ sampled' = NoSample
    /\ kills' = 0
    /\ killResult' = "none"
    /\ killedOther' = FALSE
    /\ sleeps' = 0
    /\ UNCHANGED << table, configFile, startupVars, memory_threshold,
                    private_bytes >>

\* line 178: if let Some(pid) = is_dwm_running() ... else wait_for_dwm_restart()
Scan ==
    /\ pc = "scan"
    /\ \E r \in Pids \cup {NoPid} :
        /\ IsDwmRunningCall(r)
        /\ pid' = r
        /\ found' = (r # NoPid)
        /\ sampledLive' = (r # NoPid)
        /\ pc' = IF r # NoPid THEN "mem_query" ELSE "wait_check"
    /\ scanned' = TRUE
    /\ queries' = 0
    /\ queryOutcome' = "none"
    /\ sampled' = NoSample
    /\ kills' = 0
    /\ killResult' = "none"
    /\ killedOther' = FALSE
    /\ sleeps' = 0
    /\ UNCHANGED << table, configFile, startupVars, memory_threshold,
                    private_bytes >>

\* Mutant: .unwrap() for .unwrap_or(..): a process that cannot be opened
\* panics the service thread.
MemQuery_Unwrap ==
    /\ pc = "mem_query"
    /\ \E outcome \in QueryOutcomes, m \in MemValues :
        LET opt == GetProcessMemoryInfo(table, pid, outcome, m)
            info == UnwrapOr(opt, [private_bytes |-> 0, working_set |-> 0]) IN
        /\ private_bytes' = info.private_bytes
        /\ sampled' = info.private_bytes
        /\ queryOutcome' = IF pid \notin TablePids(table) THEN "no_open" ELSE outcome
        /\ pc' = IF opt.some THEN "compare" ELSE "panicked"
    /\ queries' = queries + 1
    /\ lastCheck' = NoCall
    /\ checkFaulted' = FALSE
    /\ UNCHANGED << table, configFile, startupVars, memory_threshold, pid,
                    found, kills, killResult, killedOther, sleeps, scanned,
                    sampledLive >>

\* lines 181-182: get_process_memory_info(pid).unwrap_or(zeroes).private_bytes
MemQuery ==
    /\ pc = "mem_query"
    /\ \E outcome \in QueryOutcomes, m \in MemValues :
        LET info == UnwrapOr(GetProcessMemoryInfo(table, pid, outcome, m),
                             [private_bytes |-> 0, working_set |-> 0]) IN
        /\ private_bytes' = info.private_bytes
        /\ sampled' = info.private_bytes
        /\ queryOutcome' = IF pid \notin TablePids(table) THEN "no_open" ELSE outcome
    /\ queries' = queries + 1
    /\ lastCheck' = NoCall
    /\ checkFaulted' = FALSE
    /\ pc' = "compare"
    /\ UNCHANGED << table, configFile, startupVars, memory_threshold, pid,
                    found, kills, killResult, killedOther, sleeps, scanned,
                    sampledLive >>

\* Mutant: pid and private_bytes are declared outside the loop and keep
\* their values when the cycle ends.
Compare_KeepPid ==
    /\ pc = "compare"
    /\ pc' = IF ExceedsThreshold(private_bytes, memory_threshold)
             THEN "taskkill" ELSE "interval_sleep"
    /\ lastCheck' = NoCall
    /\ checkFaulted' = FALSE
    /\ UNCHANGED << table, configFile, startupVars, memory_threshold,
                    pid, private_bytes, sampledLive, cycleVars >>

\* lines 185-188. Without a violation the if-let block ends here and its
\* locals pid and private_bytes go out of scope.
Compare ==
    /\ pc = "compare"
    /\ IF ExceedsThreshold(private_bytes, memory_threshold)
       THEN /\ pc' = "taskkill"
            /\ UNCHANGED << pid, private_bytes, sampledLive >>
       ELSE /\ pc' = "interval_sleep"
            /\ pid' = NoPid
            /\ private_bytes' = 0
            /\ sampledLive' = FALSE
    /\ lastCheck' = NoCall
    /\ checkFaulted' = FALSE
    /\ UNCHANGED << table, configFile, startupVars, memory_threshold,
                    cycleVars >>

\* Mutant: hot reload; config.cfg is read again after each interval sleep,
\* and a readable value replaces the threshold.
IntervalSleep_Reload ==
    /\ pc = "interval_sleep"
    /\ pc' = "scan"
    /\ sleeps' = sleeps + 1
    /\ lastCheck' = NoCall
    /\ checkFaulted' = FALSE
    /\ memory_threshold' =
           IF configFile.exists /\ ConfigGet(configFile, THRESHOLD_KEY) # ParseErr
           THEN ConfigGet(configFile, THRESHOLD_KEY) ELSE memory_threshold
    /\ UNCHANGED << table, configFile, startupVars, pid,
                    private_bytes, found, queries, queryOutcome, sampled, kills,
                    killResult, killedOther, scanned, sampledLive >>

\* line 193: thread::sleep(Duration::from_secs(INTERVAL))
IntervalSleep ==
    /\ pc = "interval_sleep"
    /\ pc' = "scan"
    /\ sleeps' = sleeps + 1
    /\ lastCheck' = NoCall
    /\ checkFaulted' = FALSE
    /\ UNCHANGED << table, configFile, startupVars, memory_threshold, pid,
                    private_bytes, found, queries, queryOutcome, sampled, kills,
                    killResult, killedOther, scanned, sampledLive >>

(***************************************************************************)
(* restart_dwm                                                             *)
(***************************************************************************)
\* What `taskkill /F /IM dwm.exe` does to the process table when it runs:
\* it ends the processes in victims, all of them carrying the image name.
Taskkill(tbl, victims) == RemovePids(tbl, victims)

\* Mutant: the command is `taskkill /F /PID <pid>`: it ends whatever process
\* holds the sampled id, and nothing else.
TerminateDwm_ByPid ==
    /\ pc = "taskkill"
    /\ \E spawned \in BOOLEAN, victims \in SUBSET ({pid} \cap TablePids(table)) :
        /\ ~spawned => victims = {}
        /\ table' = Taskkill(table, victims)
        /\ killResult' = IF ~spawned THEN "spawn_err"
                         ELSE IF victims # {} THEN "exit_ok" ELSE "exit_fail"
        /\ killedOther' = \E v \in victims : ~(sampledLive /\ v = pid)
    /\ kills' = kills + 1
    /\ pid' = NoPid
    /\ private_bytes' = 0
    /\ sampledLive' = FALSE
    /\ lastCheck' = NoCall
    /\ checkFaulted' = FALSE
    /\ pc' = "grace_sleep"
    /\ UNCHANGED << configFile, startupVars, memory_threshold,
                    found, queries, queryOutcome, sampled, sleeps, scanned >>

\* Mutant: `.output().unwrap()`; the service thread panics when the command
\* cannot be invoked.
TerminateDwm_PanicOnErr ==
    /\ pc = "taskkill"
    /\ \E spawned \in BOOLEAN, victims \in SUBSET TargetPids(table) :
        /\ ~spawned => victims = {}
        /\ table' = Taskkill(table, victims)
        /\ killResult' = IF ~spawned THEN "spawn_err"
                         ELSE IF victims = TargetPids(table) /\ victims # {}
                         THEN "exit_ok" ELSE "exit_fail"
        /\ killedOther' = \E v \in victims : ~(sampledLive /\ v = pid)
        /\ pc' = IF spawned THEN "grace_sleep" ELSE "panicked"
    /\ kills' = kills + 1
    /\ pid' = NoPid
    /\ private_bytes' = 0
    /\ sampledLive' = FALSE
    /\ lastCheck' = NoCall
    /\ checkFaulted' = FALSE
    /\ UNCHANGED << configFile, startupVars, memory_threshold,
                    found, queries, queryOutcome, sampled, sleeps, scanned >>

\* Mutant: restart_dwm returns when the command cannot be invoked.
TerminateDwm_AbortOnErr ==
    /\ pc = "taskkill"
    /\ \E spawned \in BOOLEAN, victims \in SUBSET TargetPids(table) :
        /\ ~spawned => victims = {}
        /\ table' = Taskkill(table, victims)
        /\ killResult' = IF ~spawned THEN "spawn_err"
                         ELSE IF victims = TargetPids(table) /\ victims # {}
                         THEN "exit_ok" ELSE "exit_fail"
        /\ killedOther' = \E v \in victims : ~(sampledLive /\ v = pid)
        /\ pc' = IF spawned THEN "grace_sleep" ELSE "interval_sleep"
    /\ kills' = kills + 1
    /\ pid' = NoPid
    /\ private_bytes' = 0
    /\ sampledLive' = FALSE
    /\ lastCheck' = NoCall
    /\ checkFaulted' = FALSE
    /\ UNCHANGED << configFile, startupVars, memory_threshold,
                    found, queries, queryOutcome, sampled, sleeps, scanned >>

\* lines 139-142. spawned = FALSE: Command::output() returns Err, nothing runs.
\* The command succeeds ("exit_ok") when it ended every process with the image
\* name and there was one; otherwise it ran and reported failure. restart_dwm
\* takes no argument: pid and private_bytes are not read from here on.
TerminateDwm ==
    /\ pc = "taskkill"
    /\ \E spawned \in BOOLEAN, victims \in SUBSET TargetPids(table) :
        /\ ~spawned => victims = {}
        /\ table' = Taskkill(table, victims)
        /\ killResult' = IF ~spawned THEN "spawn_err"
                         ELSE IF victims = TargetPids(table) /\ victims # {}
                         THEN "exit_ok" ELSE "exit_fail"
        /\ killedOther' = \E v \in victims : ~(sampledLive /\ v = pid)
    /\ kills' = kills + 1
    /\ pid' = NoPid
    /\ private_bytes' = 0
    /\ sampledLive' = FALSE
    /\ lastCheck' = NoCall
    /\ checkFaulted' = FALSE
    /\ pc' = "grace_sleep"
    /\ UNCHANGED << configFile, startupVars, memory_threshold,
                    found, queries, queryOutcome, sampled, sleeps, scanned >>

\* line 147: thread::sleep(wait_time)
GraceSleep ==
    /\ pc = "grace_sleep"
    /\ pc' = "recheck"
    /\ lastCheck' = NoCall
    /\ checkFaulted' = FALSE
    /\ UNCHANGED << table, configFile, startupVars, memory_threshold, pid,
                    private_bytes, cycleVars, sampledLive >>

\* Mutant: a target still present after the grace sleep is taken for the
\* survivor of the command, and the command is issued again.
Recheck_KillAgain ==
    /\ pc = "recheck"
    /\ \E r \in Pids \cup {NoPid} :
        /\ IsDwmRunningCall(r)
        /\ pc' = IF r # NoPid THEN "taskkill" ELSE "retry_sleep"
    /\ UNCHANGED << table, configFile, startupVars, memory_threshold, pid,
                    private_bytes, cycleVars, sampledLive >>

\* Mutant: the retry loop checks before it sleeps.
Recheck_BusyRetry ==
    /\ pc = "recheck"
    /\ \E r \in Pids \cup {NoPid} :
        /\ IsDwmRunningCall(r)
        /\ pc' = IF r # NoPid THEN "interval_sleep" ELSE "retry_check"
    /\ UNCHANGED << table, configFile, startupVars, memory_threshold, pid,
                    private_bytes, cycleVars, sampledLive >>

\* line 151: if is_dwm_running().is_some() { return } else { loop }
Recheck ==
    /\ pc = "recheck"
    /\ \E r \in Pids \cup {NoPid} :
        /\ IsDwmRunningCall(r)
        /\ pc' = IF r # NoPid THEN "interval_sleep" ELSE "retry_sleep"
    /\ UNCHANGED << table, configFile, startupVars, memory_threshold, pid,
                    private_bytes, cycleVars, sampledLive >>

\* line 157: thread::sleep(Duration::from_secs(1))
RetrySleep ==
    /\ pc = "retry_sleep"
    /\ pc' = "retry_check"
    /\ lastCheck' = NoCall
    /\ checkFaulted' = FALSE
    /\ UNCHANGED << table, configFile, startupVars, memory_threshold, pid,
                    private_bytes, cycleVars, sampledLive >>

\* Mutant: a retry ceiling of one; the loop is left whatever the check says.
RetryCheck_GiveUp ==
    /\ pc = "retry_check"
    /\ \E r \in Pids \cup {NoPid} :
        /\ IsDwmRunningCall(r)
        /\ pc' = "interval_sleep"
    /\ UNCHANGED << table, configFile, startupVars, memory_threshold, pid,
                    private_bytes, cycleVars, sampledLive >>

\* lines 158-161: if is_dwm_running().is_some() { break }
RetryCheck ==
    /\ pc = "retry_check"
    /\ \E r \in Pids \cup {NoPid} :
        /\ IsDwmRunningCall(r)
        /\ pc' = IF r # NoPid THEN "interval_sleep" ELSE "retry_sleep"
    /\ UNCHANGED << table, configFile, startupVars, memory_threshold, pid,
                    private_bytes, cycleVars, sampledLive >>

(***************************************************************************)
(* wait_for_dwm_restart                                                    *)
(***************************************************************************)
\* Mutant: the loop is re-entered right after the wait (a `continue`).
WaitCheck_Rescan ==
    /\ pc = "wait_check"
    /\ \E r \in Pids \cup {NoPid} :
        /\ IsDwmRunningCall(r)
        /\ pc' = IF r # NoPid THEN "scan" ELSE "wait_sleep"
    /\ UNCHANGED << table, configFile, startupVars, memory_threshold, pid,
                    private_bytes, cycleVars, sampledLive >>

\* lines 168-171: if is_dwm_running().is_some() { break }
WaitCheck ==
    /\ pc = "wait_check"
    /\ \E r \in Pids \cup {NoPid} :
        /\ IsDwmRunningCall(r)
        /\ pc' = IF r # NoPid THEN "interval_sleep" ELSE "wait_sleep"
    /\ UNCHANGED << table, configFile, startupVars, memory_threshold, pid,
                    private_bytes, cycleVars, sampledLive >>

\* line 172: thread::sleep(Duration::from_secs(1))
WaitSleep ==
    /\ pc = "wait_sleep"
    /\ pc' = "wait_check"
    /\ lastCheck' = NoCall
    /\ checkFaulted' = FALSE
    /\ UNCHANGED << table, configFile, startupVars, memory_threshold, pid,
                    private_bytes, cycleVars, sampledLive >>

(***************************************************************************)
(* The service control handler (lines 225-234)                             *)
(***************************************************************************)
\* ServiceControl::Stop => std::process::exit(0), called on the dispatcher's
\* thread while the service thread is anywhere. The process ends, and the
\* service thread's variables with it.
\* Mutant: the handler sets a flag that the loop polls at its interval sleep,
\* so the process ends only there.
StopEvent_AtIntervalSleep ==
    /\ handlerRegistered
    /\ pc = "interval_sleep"
    /\ pc' = "exited"
    /\ memory_threshold' = NotLoaded
    /\ pid' = NoPid
    /\ private_bytes' = 0
    /\ lastCheck' = NoCall
    /\ checkFaulted' = FALSE
    /\ found' = FALSE
    /\ queries' = 0
    /\ queryOutcome' = "none"
    /\ sampled' = NoSample
    /\ kills' = 0
    /\ killResult' = "none"
    /\ killedOther' = FALSE
    /\ sleeps' = 0
    /\ sampledLive' = FALSE
    /\ UNCHANGED << table, configFile, startupVars, scanned >>

StopEvent ==
    /\ handlerRegistered
    /\ pc \notin { "exited", "panicked" }
    /\ pc' = "exited"
    /\ memory_threshold' = NotLoaded
    /\ pid' = NoPid
    /\ private_bytes' = 0
    /\ lastCheck' = NoCall
    /\ checkFaulted' = FALSE
    /\ found' = FALSE
    /\ queries' = 0
    /\ queryOutcome' = "none"
    /\ sampled' = NoSample
    /\ kills' = 0
    /\ killResult' = "none"
    /\ killedOther' = FALSE
    /\ sleeps' = 0
    /\ sampledLive' = FALSE
    /\ UNCHANGED << table, configFile, startupVars, scanned >>

(***************************************************************************)
(* The operating system                                                    *)
(***************************************************************************)
\* A process starts under an unused id: another program, or dwm.exe started
\* (again) by the session manager.
ProcessStart ==
    /\ Len(table) < MaxProcs
    /\ \E p \in Pids \ TablePids(table), n \in ImageNames :
        table' = Append(table, [pid |-> p, name |-> n])
    /\ UNCHANGED << pc, configFile, startupVars, memory_threshold, pid,
                    private_bytes, lastCheck, cycleVars, sampledLive, checkFaulted >>

\* A process exits on its own.
ProcessExit ==
    /\ \E p \in TablePids(table) :
        /\ table' = RemovePids(table, {p})
        /\ sampledLive' = (sampledLive /\ p # pid)
    /\ UNCHANGED << pc, configFile, startupVars, memory_threshold, pid,
                    private_bytes, lastCheck, cycleVars, checkFaulted >>

\* config.cfg is an ordinary file beside the executable: an administrator
\* may rewrite or delete it at any time. The watchdog reads it at line 83.
\* The edits modelled are those made while the monitor loop runs; the file
\* as it is before that is the initial configFile.
EditedConfigs == { NoFile, ConfigLine(<<"0">>), ConfigLine(<<"2">>) }

ConfigEdit ==
    /\ pc \in LoopPcs
    /\ \E f \in EditedConfigs :
        /\ f # configFile
        /\ configFile' = f
    /\ UNCHANGED << pc, table, startupVars, memory_threshold, pid,
                    private_bytes, lastCheck, cycleVars, sampledLive, checkFaulted >>

(***************************************************************************)
(* Specifications                                                          *)
(***************************************************************************)
Startup == ConfigureLogging \/ RegisterHandler \/ SetServiceStatus \/ GetMemoryThreshold
MonitorLoop == Scan \/ MemQuery \/ Compare \/ IntervalSleep
RestartDwm == TerminateDwm \/ GraceSleep \/ Recheck \/ RetrySleep \/ RetryCheck
WaitForDwmRestart == WaitCheck \/ WaitSleep
ServiceThread == Startup \/ MonitorLoop \/ RestartDwm \/ WaitForDwmRestart

Next ==
    \/ ConfigureLogging \/ RegisterHandler \/ SetServiceStatus \/ GetMemoryThreshold
    \/ Scan \/ MemQuery \/ Compare \/ IntervalSleep
    \/ TerminateDwm \/ GraceSleep \/ Recheck \/ RetrySleep \/ RetryCheck
    \/ WaitCheck \/ WaitSleep
    \/ StopEvent
    \/ ProcessStart \/ ProcessExit

Spec == Init /\ [][Next]_vars

\* The same program with its service thread scheduled fairly: a sleep ends,
\* and a call returns. Nothing is assumed of the operating system's processes.
\* It is started with memory_threshold = 1 in config.cfg.
FairInit == InitCommon /\ configFile = ConfigLine(<<"1">>)
FairSpec == FairInit /\ [][Next]_vars /\ WF_vars(ServiceThread)

\* The program started with memory_threshold = 1 in config.cfg, and the file
\* edited while it runs.
NextWithEdits == Next \/ ConfigEdit
EditSpec == FairInit /\ [][NextWithEdits]_vars

\* service_main up to the entry of the loop, started on config.cfg files
\* written as `memory_threshold = v` over a wider range of v.
ThresholdValues ==
    (0..MaxThreshold) \cup { 99, 100, 1048576000, 1048576001, 2147483647 }
WrittenConfig(v) == ConfigLine(DecimalDigits(v))
StartupInit ==
    /\ InitProcess
    /\ configFile \in InitialConfigs \cup { WrittenConfig(v) : v \in ThresholdValues }
StartupSpec == StartupInit /\ [][Startup]_vars

TypeOK ==
    /\ pc \in StartupPcs \cup LoopPcs \cup DeadPcs
    /\ Len(table) <= MaxProcs
    /\ \A i, j \in 1..Len(table) : table[i].pid = table[j].pid => i = j
    /\ pid \in Pids \cup {NoPid}
    /\ private_bytes \in MemValues
    /\ lastCheck \in Pids \cup {NoPid, NoCall}
    /\ sampled \in MemValues \cup {NoSample}
    /\ queryOutcome \in QueryOutcomes \cup {"none"}
    /\ killResult \in { "none", "spawn_err", "exit_ok", "exit_fail" }
    /\ kills \in 0..1 /\ queries \in 0..1 /\ sleeps \in 0..1
    /\ checkFaulted \in BOOLEAN
    /\ loggingReady \in BOOLEAN /\ handlerRegistered \in BOOLEAN /\ statusRunning \in BOOLEAN

(***************************************************************************)
(* Properties                                                              *)
(***************************************************************************)
\* The service thread took a step (the operating system's steps and a Stop
\* leave pc alone or set it to "exited").
ThreadStep == pc' # pc /\ pc' # "exited"

\* C1: in a cycle whose scan found the target, restart_dwm is entered exactly
\* when the sampled private bytes are strictly greater than memory_threshold;
\* a sample equal to or below the threshold goes on to the interval sleep with
\* no termination command.
C1_RestartIffSampleAboveThreshold ==
    (found /\ pc \in RestartPcs \cup {"interval_sleep", "scan"}) =>
        /\ sampled \in MemValues
        /\ (pc \in RestartPcs \/ kills > 0) <=> (sampled > memory_threshold)
        /\ sampled <= memory_threshold => (pc \in {"interval_sleep", "scan"} /\ kills = 0)

\* A cycle sampled exactly the threshold and went on to sleep without a kill.
C1_Witness ==
    /\ found /\ pc = "interval_sleep"
    /\ sampled = memory_threshold /\ memory_threshold > 0
    /\ kills = 0

\* C2: in a cycle whose scan did not find the target the thread is only ever
\* inside wait_for_dwm_restart or past it; the cycle makes no memory query and
\* issues no termination command, and it reaches the interval sleep only from
\* a presence check that returned a process.
C2_AbsentCycleOnlyWaits ==
    (scanned /\ ~found /\ pc \in LoopPcs) =>
        /\ pc \in WaitPcs \cup {"interval_sleep", "scan"}
        /\ queries = 0 /\ queryOutcome = "none" /\ sampled = NoSample
        /\ kills = 0 /\ killResult = "none"
        /\ pc = "interval_sleep" => lastCheck \in Pids

\* A cycle that did not find the target has come back from wait_for_dwm_restart.
C2_Witness ==
    scanned /\ ~found /\ pc = "interval_sleep" /\ lastCheck \in Pids

\* C3: after a failed memory query (OpenProcess or GetProcessMemoryInfo) the
\* compared sample is 0, so for every threshold, 0 included, no termination is
\* issued and the thread is at the comparison, the interval sleep or the next scan.
C3_FailedQueryIsInconclusive ==
    queryOutcome \in {"no_open", "no_counters"} =>
        /\ sampled = 0
        /\ kills = 0 /\ killResult = "none"
        /\ pc \in {"compare", "interval_sleep", "scan"}

\* With threshold 0 the counters call failed and the loop is at its next scan.
C3_Witness ==
    queryOutcome = "no_counters" /\ memory_threshold = 0 /\ pc = "scan"

\* One step of the confirmation phase of restart_dwm: grace sleep, then a
\* presence check, then sleep-and-check until a check returns a process that
\* is a target in the process table.
ConfirmStep ==
    \/ pc = "grace_sleep" /\ pc' = "recheck" /\ lastCheck' = NoCall
    \/ pc = "retry_sleep" /\ pc' = "retry_check" /\ lastCheck' = NoCall
    \/ /\ pc \in {"recheck", "retry_check"}
       /\ \/ lastCheck' = NoPid /\ pc' = "retry_sleep"
          \/ lastCheck' \in TargetPids(table) /\ pc' = "interval_sleep"

\* C4: when taskkill cannot be invoked, restart_dwm leaves the process table
\* alone and goes on to the grace sleep; from there every step it takes is a
\* step of the confirmation phase, and it returns only on a presence check
\* that found the target.
C4_KillErrorStillConfirms ==
    [][ /\ (pc = "taskkill" /\ ThreadStep /\ killResult' = "spawn_err")
            => (pc' = "grace_sleep" /\ table' = table)
        /\ (killResult = "spawn_err" /\ pc \in RestartPcs /\ ThreadStep)
            => ConfirmStep ]_vars

\* restart_dwm has returned after a taskkill that could not be invoked.
C4_Witness ==
    killResult = "spawn_err" /\ pc = "interval_sleep" /\ lastCheck \in Pids

\* C5: restart_dwm and wait_for_dwm_restart are left (other than by Stop) only
\* by a presence check, and only when that check returned a process that is a
\* target in the process table at that moment; control then is at the
\* interval sleep.
C5_RecoveryReturnsOnlyOnPresence ==
    [][ (pc \in RecoveryPcs /\ pc' \notin RecoveryPcs /\ pc' # "exited") =>
            /\ pc \in {"recheck", "retry_check", "wait_check"}
            /\ pc' = "interval_sleep"
            /\ lastCheck' \in TargetPids(table) ]_vars

\* restart_dwm has returned through its retry loop's check or its first re-check.
C5_Witness ==
    pc = "interval_sleep" /\ kills = 1 /\ lastCheck \in Pids /\ killResult = "exit_ok"

RestartStep ==
    \/ pc = "taskkill" /\ pc' = "grace_sleep" /\ kills' = kills + 1 /\ lastCheck' = NoCall
    \/ pc = "grace_sleep" /\ pc' = "recheck" /\ kills' = kills /\ lastCheck' = NoCall
    \/ /\ pc = "recheck" /\ kills' = kills /\ lastCheck' # NoCall
       /\ pc' = IF lastCheck' = NoPid THEN "retry_sleep" ELSE "interval_sleep"
    \/ pc = "retry_sleep" /\ pc' = "retry_check" /\ kills' = kills /\ lastCheck' = NoCall
    \/ /\ pc = "retry_check" /\ kills' = kills /\ lastCheck' # NoCall
       /\ pc' = IF lastCheck' = NoPid THEN "retry_sleep" ELSE "interval_sleep"

\* C7: inside restart_dwm the termination command is issued once, first; the
\* grace sleep follows with no presence check before or during it; then one
\* presence check; the retry loop is entered only when that check found
\* nothing, and each of its checks directly follows a one-second sleep; no
\* command is issued from the grace sleep on.
C7_RestartOrder ==
    /\ [](pc = "taskkill" => kills = 0)
    /\ [](pc \in RestartPcs \ {"taskkill"} => kills = 1)
    /\ [][ (pc \in RestartPcs /\ ThreadStep) => RestartStep ]_vars
    /\ [][ (pc' = "retry_check" /\ pc # "retry_check") => pc = "retry_sleep" ]_vars
    /\ [][ (pc' = "recheck" /\ pc # "recheck") => pc = "grace_sleep" ]_vars

\* restart_dwm is inside its retry loop, about to check after a sleep.
C7_Witness ==
    pc = "retry_check" /\ kills = 1 /\ lastCheck = NoCall

\* C8: the termination command ends only processes whose image name is the
\* target's, whatever process holds the sampled id; when it succeeds, the
\* process table afterwards is the table before it without every process of
\* that image name.
C8_KillIsByImageName ==
    [][ (pc = "taskkill" /\ ThreadStep) =>
            /\ (TablePids(table) \ TablePids(table')) \subseteq TargetPids(table)
            /\ killResult' = "exit_ok" =>
                   /\ TargetPids(table) # {}
                   /\ table' = RemovePids(table, TargetPids(table)) ]_vars

\* A successful command ended a process other than the one that was sampled.
C8_Witness ==
    pc = "grace_sleep" /\ killResult = "exit_ok" /\ killedOther

\* C9: a scan is entered only from the interval sleep (or, the first time,
\* from startup); at every scan but the first exactly one interval sleep has
\* been taken since the scan before, and none has been taken anywhere else in
\* the cycle.
C9_OneIntervalSleepBetweenScans ==
    /\ []((pc = "scan" /\ scanned) => sleeps = 1)
    /\ []((pc \in LoopPcs /\ pc # "scan") => sleeps = 0)
    /\ [][ (pc' = "scan" /\ pc # "scan") =>
               pc \in {"interval_sleep", "get_memory_threshold"} ]_vars

\* The loop is at its next scan after a cycle that ran restart_dwm.
C9_Witness ==
    pc = "scan" /\ scanned /\ sleeps = 1 /\ kills = 1

\* C10: the loop is left only by the Stop event's process exit, and in every
\* state of the loop the service thread has a next step.
C10_LoopEndsOnlyOnStop ==
    /\ [][ (pc \in LoopPcs /\ pc' \notin LoopPcs) =>
               (pc' = "exited" /\ handlerRegistered) ]_vars
    /\ [](pc \in LoopPcs => ENABLED ServiceThread)

\* The loop is at a scan after a cycle whose memory query could not open the
\* process.
C10_Witness ==
    pc = "scan" /\ queryOutcome = "no_open" /\ kills = 0

\* C11: once the handler is registered a Stop is accepted in every state of
\* the running service thread and ends the process in that one step; the
\* process ends in no other way than by Stop; and from then on the service
\* thread has no step: no presence check, no memory query, no termination
\* command, no write of config.cfg.
C11_StopEndsProcessFromAnyState ==
    /\ []((handlerRegistered /\ pc \in LoopPcs \cup StartupPcs) =>
             ENABLED (StopEvent /\ pc' = "exited"))
    /\ [][ (pc' = "exited" /\ pc # "exited") => handlerRegistered ]_vars
    /\ [](pc = "exited" => ~ENABLED ServiceThread)
    /\ [][ pc = "exited" =>
               /\ pc' = "exited"
               /\ lastCheck' = NoCall /\ queries' = 0 /\ kills' = 0
               /\ configFile' = configFile ]_vars

\* The process has been stopped after the loop had scanned, with the target
\* still running.
C11_Witness ==
    pc = "exited" /\ scanned /\ TargetPresent /\ handlerRegistered

\* C16: the monitor loop (and the load of the threshold before it) is reached
\* only with logging initialised, the handler registered and the status set
\* to Running; the three succeed in that order; a failure of one ends
\* service_main at that step with the later ones not attempted, and the loop
\* is never entered afterwards.
C16_StartupOrder ==
    /\ []((pc \in LoopPcs \cup {"get_memory_threshold"}) =>
             (loggingReady /\ handlerRegistered /\ statusRunning))
    /\ [](handlerRegistered => loggingReady)
    /\ [](statusRunning => handlerRegistered)
    /\ [](pc = "register" => (loggingReady /\ ~handlerRegistered))
    /\ [](pc = "set_status" => (handlerRegistered /\ ~statusRunning))
    /\ [](pc = "returned" => (~statusRunning /\ ~scanned /\ memory_threshold = NotLoaded))
    /\ [][ pc = "returned" =>
               (pc' \in {"returned", "exited"} /\ UNCHANGED startupVars) ]_vars

\* set_service_status failed after the two earlier steps succeeded.
C16_Witness ==
    pc = "returned" /\ loggingReady /\ handlerRegistered /\ ~statusRunning

\* C12: the threshold is loaded before the first scan, by the step that
\* enters the loop, as the value config.cfg holds then; every step that stays
\* in the loop (of the watchdog, of the operating system, of an editor of
\* config.cfg) leaves it as it is; it is written by nothing but that load
\* (and is gone with the process on Stop).
C12_ThresholdLoadedOnce ==
    /\ [](pc \in LoopPcs => memory_threshold # NotLoaded)
    /\ [](pc \in StartupPcs => (memory_threshold = NotLoaded /\ ~scanned))
    /\ [][ (pc = "get_memory_threshold" /\ pc' = "scan") =>
               memory_threshold' = ConfigGet(configFile', THRESHOLD_KEY) ]_vars
    /\ [][ (pc \in LoopPcs /\ pc' \in LoopPcs) =>
               memory_threshold' = memory_threshold ]_vars
    /\ [][ memory_threshold' # memory_threshold =>
               (pc = "get_memory_threshold" \/ pc' = "exited") ]_vars

\* The loop is at a later scan while config.cfg holds another valid value
\* than the threshold in use.
C12_Witness ==
    /\ pc = "scan" /\ scanned /\ sleeps = 1
    /\ configFile.exists
    /\ ConfigGet(configFile, THRESHOLD_KEY) \notin {ParseErr, memory_threshold}

\* The decimal text of DEFAULT_MEMORY_THRESHOLD, 1000 x 1024 x 1024.
DefaultText == <<"1","0","4","8","5","7","6","0","0","0">>

\* C13: with no config.cfg, get_memory_threshold can return; when it does it
\* has created the file with the line memory_threshold = 1048576000 and
\* returned 1048576000, and a second load, of the file it created, returns
\* 1048576000 again and leaves the file as it is.
C13_AbsentFileCreatedWithDefault ==
    /\ []((pc = "get_memory_threshold" /\ ~configFile.exists) =>
             ENABLED (GetMemoryThreshold /\ pc' = "scan"))
    /\ [][ (pc = "get_memory_threshold" /\ ~configFile.exists /\ pc' = "scan") =>
               /\ configFile' = ConfigLine(DefaultText)
               /\ memory_threshold' = 1048576000
               /\ memory_threshold' = DEFAULT_MEMORY_THRESHOLD
               /\ GetMemoryThresholdResult(configFile', TRUE) =
                      [panic |-> FALSE, file |-> configFile', value |-> 1048576000] ]_vars

\* The loop is entered with the default on the file just created (no initial
\* config.cfg holds the default).
C13_Witness ==
    /\ pc = "scan" /\ ~scanned
    /\ memory_threshold = DEFAULT_MEMORY_THRESHOLD
    /\ configFile = ConfigLine(DefaultText)

\* C14: for every v of ThresholdValues, on a config.cfg written as
\* `memory_threshold = v` get_memory_threshold can return, and when it does
\* it returns v; a load of an existing file leaves the file as it is, and a
\* second load of it returns the same value as the first.
C14_ConfigRoundTrip ==
    /\ [](\A v \in ThresholdValues :
             (pc = "get_memory_threshold" /\ configFile = WrittenConfig(v)) =>
                 ENABLED (GetMemoryThreshold /\ pc' = "scan" /\ memory_threshold' = v))
    /\ [][ \A v \in ThresholdValues :
               (pc = "get_memory_threshold" /\ configFile = WrittenConfig(v)
                   /\ pc' = "scan") => memory_threshold' = v ]_vars
    /\ [][ (pc = "get_memory_threshold" /\ configFile.exists) =>
               configFile' = configFile ]_vars
    /\ [][ (pc = "get_memory_threshold" /\ configFile.exists /\ pc' = "scan") =>
               GetMemoryThresholdResult(configFile', TRUE) =
                   [panic |-> FALSE, file |-> configFile, value |-> memory_threshold'] ]_vars

\* The file written by the repository's test, loaded.
C14_Witness ==
    /\ pc = "scan"
    /\ configFile = WrittenConfig(1048576001)
    /\ memory_threshold = 1048576001

\* config.cfg exists and has a memory_threshold line whose value is not an
\* unsigned integer.
Malformed(file) ==
    /\ file.exists
    /\ \E i \in 1..Len(file.lines) : file.lines[i].key = THRESHOLD_KEY
    /\ ConfigGet(file, THRESHOLD_KEY) = ParseErr

\* C15: on a malformed config.cfg the step of get_memory_threshold panics:
\* no threshold is set (the default neither), the file is left as it is, and
\* the thread has no step afterwards; in such a run the loop is never
\* entered, nothing is scanned and no termination command is issued.
C15_MalformedConfigIsFatal ==
    /\ [][ (pc = "get_memory_threshold" /\ Malformed(configFile) /\ pc' # pc) =>
               /\ pc' \in {"panicked", "exited"}
               /\ configFile' = configFile
               /\ memory_threshold' = NotLoaded ]_vars
    /\ [](Malformed(configFile) =>
             /\ pc \notin LoopPcs
             /\ ~scanned /\ kills = 0 /\ lastCheck = NoCall
             /\ memory_threshold = NotLoaded)
    /\ [](pc = "panicked" => ~ENABLED ServiceThread)
    /\ [][ pc = "panicked" => (pc' = "panicked" /\ configFile' = configFile) ]_vars

\* Startup got as far as the load of the threshold and panicked there on a
\* malformed file.
C15_Witness ==
    pc = "panicked" /\ Malformed(configFile) /\ statusRunning

\* C17: a memory query is made only at mem_query, which is entered only by a
\* scan that returned an id, and it is made on that id: the id is the one
\* the thread's latest presence check (this cycle's scan) returned. One query
\* is made per cycle. At the scan, at the interval sleep and in
\* wait_for_dwm_restart the thread holds no id and no sample: none is carried
\* from one cycle to the next.
C17_QueriedPidIsThisCyclesScan ==
    /\ [](pc = "mem_query" =>
             (pid \in Pids /\ pid = lastCheck /\ found /\ queries = 0))
    /\ [](pc = "compare" => (pid \in Pids /\ found /\ queries = 1))
    /\ [][ (pc' = "mem_query" /\ pc # "mem_query") =>
               (pc = "scan" /\ lastCheck' \in Pids /\ pid' = lastCheck') ]_vars
    /\ [][ queries' = queries + 1 => (pc = "mem_query" /\ pid = lastCheck) ]_vars
    /\ []((pc \in {"scan", "interval_sleep"} \cup WaitPcs) =>
             (pid = NoPid /\ private_bytes = 0))

\* The cycle has queried a target that runs under id 2, a replacement of the
\* dwm.exe the service started with (id 1).
C17_Witness ==
    pc = "compare" /\ queries = 1 /\ pid = 2 /\ TargetPids(table) = {2}

\* Positions, in the enumeration EnumProcesses returned (nothing when it
\* fails, at most PROCESS_IDS_LEN ids), of the processes that can be opened
\* and named and whose name is the target's, ignoring ASCII case.
QueryableMatches(tbl, acc, enumOk) ==
    IF ~enumOk THEN {}
    ELSE { i \in 1..Min(Len(tbl), PROCESS_IDS_LEN) :
               /\ acc[tbl[i].pid] = "ok"
               /\ MatchesTarget[tbl[i].name] }

\* C18: for the process table of every reachable state and every way its
\* processes can answer OpenProcess, EnumProcessModules and
\* GetModuleBaseNameW, is_dwm_running returns the id at the least position
\* that is queryable and matching, and none exactly when there is no such
\* position; processes before it that cannot be opened or named are passed
\* over. A presence check made by the thread returns none or the id of a
\* process of the table that carries the target's name.
C18_FirstQueryableMatch ==
    /\ [](\A enumOk \in BOOLEAN, acc \in [TablePids(table) -> Access] :
             LET m == QueryableMatches(table, acc, enumOk)
                 r == IsDwmRunning(table, acc, enumOk) IN
             /\ (r = NoPid) <=> (m = {})
             /\ m # {} =>
                   \E i \in m : /\ r = table[i].pid
                                /\ \A j \in m : i <= j)
    /\ [][ (pc' # pc /\ lastCheck' \in Pids) =>
               (table' = table /\ lastCheck' \in TargetPids(table)) ]_vars

\* A scan returned the second process of the enumeration although the first
\* carries the target's name: the first could not be queried and was passed
\* over (the table keeps its order, and new processes are added at its end).
C18_Witness ==
    /\ pc = "mem_query" /\ Len(table) = 2
    /\ MatchesTarget[table[1].name]
    /\ lastCheck = table[2].pid
    /\ checkFaulted

\* C19: a termination command is issued only by the step at taskkill, in a
\* cycle that has scanned and found the target, made its one memory query and
\* sampled strictly more than the threshold, and that has issued none yet;
\* so no cycle issues two. While the thread is in startup or in
\* wait_for_dwm_restart the cycle has issued none, and no step of the thread
\* other than the one at taskkill changes the process table.
C19_KillOnlyAfterViolationOncePerCycle ==
    /\ [][ kills' > kills =>
               /\ pc = "taskkill" /\ kills = 0 /\ kills' = 1
               /\ scanned /\ found /\ queries = 1
               /\ sampled \in MemValues /\ sampled > memory_threshold ]_vars
    /\ [](kills <= 1)
    /\ [](kills = 1 => (found /\ sampled > memory_threshold /\ killResult # "none"))
    /\ []((pc \in StartupPcs \cup WaitPcs) => (kills = 0 /\ killResult = "none"))
    /\ [][ (pc' # pc /\ pc # "taskkill") => table' = table ]_vars

\* The command has just been issued, after a sample of MaxMem on a threshold
\* below it.
C19_Witness ==
    /\ pc = "grace_sleep" /\ kills = 1 /\ found
    /\ sampled = MaxMem /\ memory_threshold < MaxMem /\ memory_threshold >= 0

====
